---- MODULE Spec2Model ----
(***************************************************************************)
(* A model of friendly_traceback/about_warnings.py (the warning capture    *)
(* pipeline, the per-category registry of message parsers and the cause    *)
(* dispatch) and of friendly_traceback/runtime_errors/key_error.py (the    *)
(* KeyError message parsers).                                              *)
(*                                                                         *)
(* Python objects are modelled by value, except WarningDataParser objects, *)
(* which live in `heap` and are referred to by their index, so that "the   *)
(* same object" can be told from "an equal object".  Text built from       *)
(* translated templates is a sequence of template instances; `+` on text   *)
(* is concatenation of sequences.                                          *)
(***************************************************************************)
EXTENDS Integers, Sequences, FiniteSets, TLC

VARIABLES
    heap,                  \* the WarningDataParser objects created so far
    WARNING_DATA_PARSERS,  \* about_warnings.WARNING_DATA_PARSERS: type -> object
    sys_modules,           \* built-in parser modules already imported
    import_calls,          \* number of import_module calls, per warning type
    returned,              \* history: objects get_warning_parser returned, per type
    session_err,           \* what was written with session.write_err
    last_cause,            \* history: the last get_warning_cause call
    _warnings_seen,        \* about_warnings._warnings_seen
    recorded_tracebacks,   \* session.recorded_tracebacks
    _run_with_pytest,      \* about_warnings._run_with_pytest
    calls,                 \* history: the dedup tuples of all show_warning calls
    last_show,             \* history: the last show_warning call
    tb_data,               \* key_error: the TracebackData handed to the parsers
    message,               \* key_error: the message handed to the parsers
    last_parser            \* history: the last KeyError parser call and its result

vars == <<heap, WARNING_DATA_PARSERS, sys_modules, import_calls, returned,
          session_err, last_cause, _warnings_seen, recorded_tracebacks,
          _run_with_pytest, calls, last_show, tb_data, message, last_parser>>

regVars == <<heap, WARNING_DATA_PARSERS, sys_modules, import_calls, returned>>
warnVars == <<_warnings_seen, recorded_tracebacks, _run_with_pytest, calls, last_show>>
keyVars == <<tb_data, message, last_parser>>

-----------------------------------------------------------------------------
(* Bounds *)

\* Longest effective parser list a direct registration may extend.
MaxParsers == 3
\* Most lines session.write_err may hold after a get_warning_cause call.
MaxErr == 3
\* Most show_warning calls in one run.
MaxCalls == 2
\* Most keys of a dict-like object.
MaxKeys == 2

-----------------------------------------------------------------------------
(* Small helpers *)

Range(s) == {s[i] : i \in DOMAIN s}

\* The empty dict {}.
EmptyDict == <<>>

\* d[k] = v on a dict modelled as a function.
DictSet(d, k, v) == [x \in DOMAIN d \cup {k} |-> IF x = k THEN v ELSE d[x]]

-----------------------------------------------------------------------------
(* The message parsers that get registered, and what a call of each does.  *)

\* A parser returns {} ("empty"), returns a non-empty CauseInfo, or raises.
\* These are the parsers registered by direct calls of _add and add; the
\* built-in module brings its own.
Parsers == {"p_empty", "p_cause_a", "p_raises"}

Raises(parser) == parser = "p_raises"

ParserResult(parser) ==
    CASE parser = "p_cause_a" -> [cause |-> "a"]
      [] parser = "p_cause_b" -> [cause |-> "b"]
      [] OTHER -> EmptyDict

\* Python truth of a dict: non-empty.
Truthy(cause) == DOMAIN cause # {}

-----------------------------------------------------------------------------
(* Warning types.  A type is a class; two classes may have the same        *)
(* __name__.                                                               *)

WarningTypes == {"ImportWarning", "SyntaxWarning", "UserWarning", "pkg.UserWarning"}

__name__(warning_type) ==
    IF warning_type = "pkg.UserWarning" THEN "UserWarning" ELSE warning_type

INCLUDED_PARSERS == [t \in {"SyntaxWarning"} |-> "syntax_warning"]

\* The parsers friendly_traceback.warning_parsers.syntax_warning registers.
SyntaxWarningParsers == <<"p_empty", "p_cause_b">>

-----------------------------------------------------------------------------
(* class WarningDataParser *)

WarningDataParser == [parsers |-> <<>>, core_parsers |-> <<>>, custom_parsers |-> <<>>]

\* add as a copy of _add: the new parser goes to the end of the effective list.
add_appends_to_parsers(self, func) ==
    [self EXCEPT !.parsers = Append(@, func),
                 !.custom_parsers = Append(@, func)]

\* add with insert(0, func) in place of append(func).
add_prepends(self, func) ==
    LET custom == <<func>> \o self.custom_parsers
    IN  [self EXCEPT !.custom_parsers = custom,
                     !.parsers = custom \o self.core_parsers]

_add(self, func) ==
    [self EXCEPT !.parsers = Append(@, func),
                 !.core_parsers = Append(@, func)]

add(self, func) ==
    LET custom == Append(self.custom_parsers, func)
    IN  [self EXCEPT !.custom_parsers = custom,
                     !.parsers = custom \o self.core_parsers]

-----------------------------------------------------------------------------
(* get_warning_parser and the import it triggers.  R is the registry       *)
(* state: [heap, WARNING_DATA_PARSERS, sys_modules, import_calls,          *)
(* returned].                                                              *)

RECURSIVE get_warning_parser(_, _)
RECURSIVE import_module(_, _)

\* Registers the parsers of a sequence, in order, with object `obj`.
RECURSIVE AddAll(_, _, _)
AddAll(h, obj, funcs) ==
    IF funcs = <<>> THEN h
    ELSE AddAll([h EXCEPT ![obj] = _add(@, Head(funcs))], obj, Tail(funcs))

\* The body of a built-in parser module: `parser = get_warning_parser(T)`
\* followed by one `@parser._add` per parser.
ModuleBody(R, warning_type) ==
    LET decorate(g) == [g.R EXCEPT !.heap = AddAll(@, g.ret, SyntaxWarningParsers)]
    IN  decorate(get_warning_parser(R, warning_type))

\* importlib.import_module: a module already in sys.modules (even one whose
\* body is still running) is not executed again.
import_module(R, warning_type) ==
    LET R1 == [R EXCEPT !.import_calls[warning_type] = @ + 1]
    IN  IF INCLUDED_PARSERS[warning_type] \in R1.sys_modules
        THEN R1
        ELSE ModuleBody([R1 EXCEPT !.sys_modules = @ \cup {INCLUDED_PARSERS[warning_type]}],
                        warning_type)

\* get_warning_parser without the `not in WARNING_DATA_PARSERS` test.
get_warning_parser_no_cache(R, warning_type) ==
    LET lookup(R1) ==
            LET ret == R1.WARNING_DATA_PARSERS[warning_type]
            IN  [R |-> [R1 EXCEPT !.returned[warning_type] = @ \cup {ret}], ret |-> ret]
        R0 == [R EXCEPT
                   !.heap = Append(@, WarningDataParser),
                   !.WARNING_DATA_PARSERS = DictSet(@, warning_type, Len(R.heap) + 1)]
    IN  lookup(IF warning_type \in DOMAIN INCLUDED_PARSERS
               THEN import_module(R0, warning_type)
               ELSE R0)

\* lookup is the return statement, on the registry R1 that the `if` leaves.
get_warning_parser(R, warning_type) ==
    LET lookup(R1) ==
            LET ret == R1.WARNING_DATA_PARSERS[warning_type]
            IN  [R |-> [R1 EXCEPT !.returned[warning_type] = @ \cup {ret}], ret |-> ret]
        R0 == [R EXCEPT
                   !.heap = Append(@, WarningDataParser),
                   !.WARNING_DATA_PARSERS = DictSet(@, warning_type, Len(R.heap) + 1)]
    IN  lookup(IF warning_type \notin DOMAIN R.WARNING_DATA_PARSERS
               THEN IF warning_type \in DOMAIN INCLUDED_PARSERS
                    THEN import_module(R0, warning_type)
                    ELSE R0
               ELSE R)

-----------------------------------------------------------------------------
(* get_cause and get_warning_cause *)

\* The loop with each parser call wrapped in try/except: a parser that
\* raises counts as one that returned {} and the loop goes on.
RECURSIVE CauseLoopSkipsRaising(_, _, _)
CauseLoopSkipsRaising(parsers, i, invoked) ==
    IF i > Len(parsers)
    THEN [invoked |-> invoked, raised |-> \E j \in DOMAIN parsers : Raises(parsers[j]),
          cause |-> EmptyDict]
    ELSE LET parser == parsers[i]
             called == Append(invoked, parser)
         IN  IF ~Raises(parser) /\ Truthy(ParserResult(parser))
             THEN [invoked |-> called, raised |-> FALSE,
                   cause |-> ParserResult(parser)]
             ELSE CauseLoopSkipsRaising(parsers, i + 1, called)

\* The loop without the early return: the last non-empty cause wins.
RECURSIVE CauseLoopNoShortCircuit(_, _, _)
CauseLoopNoShortCircuit(parsers, i, invoked) ==
    IF i > Len(parsers)
    THEN [invoked |-> invoked, raised |-> FALSE, cause |-> EmptyDict]
    ELSE LET parser == parsers[i]
             called == Append(invoked, parser)
         IN  IF Raises(parser)
             THEN [invoked |-> called, raised |-> TRUE, cause |-> EmptyDict]
             ELSE LET rest == CauseLoopNoShortCircuit(parsers, i + 1, called)
                  IN  IF Truthy(ParserResult(parser)) /\ ~rest.raised /\ ~Truthy(rest.cause)
                      THEN [rest EXCEPT !.cause = ParserResult(parser)]
                      ELSE rest

\* The loop of get_cause over parsers[i..]: which parsers were called, and
\* whether the loop returned a cause, ran out, or a parser raised.
RECURSIVE CauseLoop(_, _, _)
CauseLoop(parsers, i, invoked) ==
    IF i > Len(parsers)
    THEN [invoked |-> invoked, raised |-> FALSE, cause |-> EmptyDict]
    ELSE LET parser == parsers[i]
             called == Append(invoked, parser)
         IN  IF Raises(parser)
             THEN [invoked |-> called, raised |-> TRUE, cause |-> EmptyDict]
             ELSE IF Truthy(ParserResult(parser))
                  THEN [invoked |-> called, raised |-> FALSE,
                        cause |-> ParserResult(parser)]
                  ELSE CauseLoop(parsers, i + 1, called)

get_cause(R, warning_type) ==
    LET result(g, run) ==
            [R |-> g.R, obj |-> g.ret, invoked |-> run.invoked,
             raised |-> run.raised, cause |-> run.cause]
        loop(g) == result(g, CauseLoop(g.R.heap[g.ret].parsers, 1, <<>>))
    IN  loop(get_warning_parser(R, warning_type))

ErrorReport == <<"Exception raised", "str(e)", "internal_error(e)">>

get_warning_cause(R, err, warning_type) ==
    LET try(c) ==
            IF c.raised
            THEN [R |-> c.R, err |-> err \o ErrorReport, ret |-> EmptyDict, inner |-> c]
            ELSE [R |-> c.R, err |-> err, ret |-> c.cause, inner |-> c]
    IN  try(get_cause(R, warning_type))

-----------------------------------------------------------------------------
(* class WarningInfo *)

\* What a call into code outside this module does during one construction:
\* nothing goes wrong ("none"), a call made only with a frame raises
\* ("frame": format_source, executing.Source.executing, get_var_info), or a
\* call made on every construction raises ("generic":
\* get_generic_explanation, path_utils.shorten_path).
Failures == {"none", "frame", "generic"}

\* recompile_info, when nothing raises: the sections it adds, then the
\* cause found by get_warning_cause merged in with info.update.
recompile_info(R, err, info, warning_type, filename, lineno) ==
    LET sections == [k \in {"lang", "generic", "warning location header"} |->
                        IF k = "warning location header"
                        THEN <<lineno, filename>>
                        ELSE IF k = "generic" THEN <<warning_type>> ELSE <<"session.lang">>]
        update(c) == [R |-> c.R, err |-> c.err, info |-> c.ret @@ sections @@ info]
    IN  update(get_warning_cause(R, err, warning_type))

\* WarningInfo(warning_instance, warning_type, filename, lineno, frame, lines),
\* with frame = TRUE for a resolved frame and FALSE for None.  ok = FALSE
\* when the constructor raises; the registry and the error channel are
\* touched by get_warning_cause only, the last step.
WarningInfo(R, err, msg, warning_type, filename, lineno, frame, failure) ==
    LET head == [k \in {"warning message", "message"} |-> <<__name__(warning_type), msg>>]
        body == IF frame
                THEN [k \in {"warning source", "warning variables"} |-> <<"frame", lineno>>]
                ELSE [k \in {"warning source"} |-> <<"file", lineno>>]
        self == [warning_type |-> warning_type, message |-> msg, filename |-> filename,
                 lineno |-> lineno, frame |-> frame, info |-> body @@ head]
    IN  IF (frame /\ failure = "frame") \/ failure = "generic"
        THEN [ok |-> FALSE, R |-> R, err |-> err, self |-> self]
        ELSE LET recompiled(r) ==
                     [ok |-> TRUE, R |-> r.R, err |-> r.err,
                      self |-> [self EXCEPT !.info = r.info]]
             IN  recompiled(recompile_info(R, err, self.info, warning_type,
                                           filename, lineno))

-----------------------------------------------------------------------------
(* saw_warning_before and show_warning *)

saw_warning_before(seen, warning_type, msg, filename, lineno) ==
    IF warning_type \in DOMAIN seen
    THEN IF msg \in DOMAIN seen[warning_type]
         THEN IF filename \in DOMAIN seen[warning_type][msg]
              THEN IF lineno \in Range(seen[warning_type][msg][filename])
                   THEN [seen |-> seen, ret |-> TRUE]
                   ELSE [seen |-> [seen EXCEPT ![warning_type][msg][filename] =
                                        Append(@, lineno)],
                         ret |-> FALSE]
              ELSE [seen |-> [seen EXCEPT ![warning_type][msg] =
                                   DictSet(@, filename, <<lineno>>)],
                    ret |-> FALSE]
         ELSE [seen |-> [seen EXCEPT ![warning_type] =
                              DictSet(@, msg, DictSet(EmptyDict, filename, <<lineno>>))],
               ret |-> FALSE]
    ELSE [seen |-> DictSet(seen, warning_type,
                      DictSet(EmptyDict, msg, DictSet(EmptyDict, filename, <<lineno>>))),
          ret |-> FALSE]

\* The two ImportWarning messages that friendly_idle causes.
IdleMessages ==
    {"PatchingFinder.find_spec() not found; falling back to find_module()",
     "PatchingLoader.exec_module() not found; falling back to load_module()"}

\* What the stack walk of show_warning finds: inspect.getouterframes raises,
\* a frame with the warning's filename and line, or no such frame.
Walks == {"raises", "match", "nomatch"}

\* The try/except of show_warning: the construction tried first, and on an
\* exception the frame-less construction of the handler.  `first` and
\* `second` say what goes wrong in each.
BuildWarningData(R, err, msg, warning_type, filename, lineno, walk, first, second) ==
    LET except(tried) ==
            IF walk # "raises" /\ tried.ok
            THEN tried
            ELSE WarningInfo(R, err, msg, warning_type, filename, lineno, FALSE, second)
    IN  except(WarningInfo(R, err, msg, warning_type, filename, lineno,
                           walk = "match", first))

\* W is the state show_warning works on: the registry state R, err,
\* _warnings_seen, recorded_tracebacks.  outcome tells how the call ended:
\* "filtered" and "seen" are the early returns, "raised" an exception that
\* leaves show_warning.
show_warning(W, pytest, msg, warning_type, filename, lineno, walk, first, second) ==
    IF filename = "<>"
    THEN [W EXCEPT !.outcome = "filtered"]
    ELSE IF warning_type = "ImportWarning" /\ msg \in IdleMessages
    THEN [W EXCEPT !.outcome = "filtered"]
    ELSE LET saw == saw_warning_before(W.seen, __name__(warning_type), msg,
                                       filename, lineno)
         IN  IF saw.ret
             THEN [W EXCEPT !.outcome = "seen"]
             ELSE LET line == <<__name__(warning_type), msg>>
                      report(data, W1) ==
                          IF ~data.ok
                          THEN [W1 EXCEPT !.outcome = "raised"]
                          ELSE IF ~pytest
                          THEN [W1 EXCEPT !.recorded = Append(@, data.self),
                                          !.err = Append(@, line),
                                          !.outcome = "returned"]
                          ELSE IF "cause" \in DOMAIN data.self.info
                          THEN [W1 EXCEPT !.outcome = "returned"]
                          ELSE [W1 EXCEPT !.err = Append(@, line),
                                          !.outcome = "returned"]
                      built(data) ==
                          report(data, [W EXCEPT !.seen = saw.seen, !.R = data.R,
                                                 !.err = data.err])
                  IN  built(BuildWarningData(W.R, W.err, msg, warning_type,
                                             filename, lineno, walk, first, second))

-----------------------------------------------------------------------------
(* runtime_errors/key_error.py: the values the parsers work on             *)

\* Python values used as keys: ints (held by their decimal digits), strs,
\* and an object whose repr raises.
PyInt(digits) == [t |-> "int", v |-> digits]
PyStr(s) == [t |-> "str", v |-> s]
Opaque == [t |-> "object", v |-> "<K>"]

IsStr(k) == k.t = "str"

\* str(k), as TLA+ text.
str(k) == k.v

\* repr(k), as TLA+ text; ReprRaises(k) when repr(k) raises.
ReprRaises(k) == k.t = "object"
repr(k) == IF k.t = "str" THEN "'" \o k.v \o "'" ELSE str(k)

\* Text made from a translated template: one template instance.  Texts are
\* joined with \o, as the code joins them with +.
Text(template, args) == <<[template |-> template, args |-> args]>>

please_report == Text("please_report", <<>>)

\* The keys a dict-like object may hold, and the objects found in frames:
\* dicts, objects of another class with keys(), and an object without.
\* keys() is modelled as a set: the parsers use its order only to build the
\* list handed to get_similar_words, whose answer is ordered by closeness.
DictKeys == {PyInt("1"), PyStr("1"), PyStr("a")}

Objects ==
    {[class |-> c, keys |-> ks] :
        c \in {"dict", "ChainMap"},
        ks \in {x \in SUBSET DictKeys : Cardinality(x) <= MaxKeys}}
    \cup {[class |-> "int", keys |-> {}]}

HasKeys(obj) == obj.class \in {"dict", "ChainMap"}

\* info_variables.get_all_objects(bad_line, frame)["name, obj"]: a frame is
\* modelled by the (name, obj) pairs the scan of its line returns, in order.
get_all_objects(bad_line, frame) == frame

\* utils.get_similar_words(word, words): the words close enough to `word`,
\* closest first.  `ranking` is the matcher's verdict on all words.
RECURSIVE get_similar_words(_, _, _)
get_similar_words(word, words, ranking) ==
    IF ranking = <<>> THEN <<>>
    ELSE IF Head(ranking) \in words /\ Head(ranking) # word
         THEN <<Head(ranking)>> \o get_similar_words(word, words, Tail(ranking))
         ELSE get_similar_words(word, words, Tail(ranking))

\* [repr(k) for k in seq]
RECURSIVE ReprAll(_)
ReprAll(seq) == IF seq = <<>> THEN <<>> ELSE <<repr(Head(seq))>> \o ReprAll(Tail(seq))

-----------------------------------------------------------------------------
(* find_empty_dict_like_obj, find_missing_key_obj *)

\* (None, None)
NotFound == [name |-> "None", obj |-> [class |-> "NoneType", keys |-> {}]]

\* The loop of find_empty_dict_like_obj over all_objects[i..].
RECURSIVE EmptyDictLikeFrom(_, _)
EmptyDictLikeFrom(all_objects, i) ==
    IF i > Len(all_objects) THEN NotFound
    ELSE IF HasKeys(all_objects[i].obj) /\ Cardinality(all_objects[i].obj.keys) = 0
    THEN all_objects[i]
    ELSE EmptyDictLikeFrom(all_objects, i + 1)

find_empty_dict_like_obj(frame, bad_line) ==
    EmptyDictLikeFrom(get_all_objects(bad_line, frame), 1)

\* The loop of find_missing_key_obj over all_objects[i..].
RECURSIVE MissingKeyFrom(_, _, _)
MissingKeyFrom(key, all_objects, i) ==
    IF i > Len(all_objects) THEN NotFound
    ELSE IF HasKeys(all_objects[i].obj) /\ key \notin all_objects[i].obj.keys
    THEN all_objects[i]
    ELSE MissingKeyFrom(key, all_objects, i + 1)

find_missing_key_obj(key, frame, bad_line) ==
    MissingKeyFrom(key, get_all_objects(bad_line, frame), 1)

-----------------------------------------------------------------------------
(* key_is_a_string, analyze_missing_key.  Each returns a record: ret is    *)
(* the CauseInfo returned, similar the list get_similar_words returned if  *)
(* it was called (<<"not called">> otherwise); analyze_missing_key adds    *)
(* the key it was called with and the (name, obj) it identified.           *)

NotCalled == <<"not called">>

\* key_is_a_string with the hint of the other branch of analyze_missing_key.
key_is_a_string_forgot_hint(key, dict_name, obj, ranking) ==
    LET keys == {str(k) : k \in obj.keys}
        string_keys == {k \in obj.keys : IsStr(k)}
        similar == ReprAll(get_similar_words(key, string_keys, ranking))
    IN  IF key.v \in keys
        THEN [ret |-> [cause |-> Text("string identical to key", <<repr(key), dict_name>>),
                       suggest |-> Text("Did you forget to convert into a string?",
                                        <<key.v>>)],
              similar |-> NotCalled]
        ELSE IF Len(similar) = 1
        THEN [ret |-> [cause |-> Text("is a key similar to", <<similar[1], dict_name, repr(key)>>),
                       suggest |-> Text("Did you mean?", <<similar[1]>>)],
              similar |-> similar]
        ELSE IF similar # <<>>
        THEN [ret |-> [cause |-> Text("has some keys similar to", <<dict_name, repr(key), similar>>),
                       suggest |-> Text("Did you mean?", <<similar[1]>>)],
              similar |-> similar]
        ELSE [ret |-> EmptyDict, similar |-> similar]

\* key_is_a_string that suggests the last of the similar keys, not the first.
key_is_a_string_suggests_last(key, dict_name, obj, ranking) ==
    LET keys == {str(k) : k \in obj.keys}
        string_keys == {k \in obj.keys : IsStr(k)}
        similar == ReprAll(get_similar_words(key, string_keys, ranking))
    IN  IF key.v \in keys
        THEN [ret |-> [cause |-> Text("string identical to key", <<repr(key), dict_name>>),
                       suggest |-> Text("Did you convert into a string by mistake?",
                                        <<key.v>>)],
              similar |-> NotCalled]
        ELSE IF Len(similar) = 1
        THEN [ret |-> [cause |-> Text("is a key similar to", <<similar[1], dict_name, repr(key)>>),
                       suggest |-> Text("Did you mean?", <<similar[1]>>)],
              similar |-> similar]
        ELSE IF similar # <<>>
        THEN [ret |-> [cause |-> Text("has some keys similar to", <<dict_name, repr(key), similar>>),
                       suggest |-> Text("Did you mean?", <<similar[Len(similar)]>>)],
              similar |-> similar]
        ELSE [ret |-> EmptyDict, similar |-> similar]

key_is_a_string(key, dict_name, obj, ranking) ==
    LET keys == {str(k) : k \in obj.keys}
        string_keys == {k \in obj.keys : IsStr(k)}
        similar == ReprAll(get_similar_words(key, string_keys, ranking))
    IN  IF key.v \in keys
        THEN [ret |-> [cause |-> Text("string identical to key", <<repr(key), dict_name>>),
                       suggest |-> Text("Did you convert into a string by mistake?",
                                        <<key.v>>)],
              similar |-> NotCalled]
        ELSE IF Len(similar) = 1
        THEN [ret |-> [cause |-> Text("is a key similar to", <<similar[1], dict_name, repr(key)>>),
                       suggest |-> Text("Did you mean?", <<similar[1]>>)],
              similar |-> similar]
        ELSE IF similar # <<>>
        THEN [ret |-> [cause |-> Text("has some keys similar to", <<dict_name, repr(key), similar>>),
                       suggest |-> Text("Did you mean?", <<similar[1]>>)],
              similar |-> similar]
        ELSE [ret |-> EmptyDict, similar |-> similar]

analyze_missing_key(key, frame, bad_line, ranking) ==
    LET found == find_missing_key_obj(key, frame, bad_line)
        name == found.name
        obj == found.obj
        Returns(ret, similar) ==
            [ret |-> ret, similar |-> similar, key |-> key, found |-> found]
    IN  IF ReprRaises(key)
        THEN Returns(EmptyDict, NotCalled)
        ELSE IF name = "None"
        THEN Returns([cause |-> Text("cannot identify", <<repr(key)>>)], NotCalled)
        ELSE LET begin_cause ==
                     IF obj.class = "dict"
                     THEN Text("cannot be found in the dict", <<repr(key), name>>)
                     ELSE Text("cannot be found in object of type",
                               <<repr(key), name, obj.class>>)
                 result == key_is_a_string(key, name, obj, ranking)
             IN  IF IsStr(key)
                 THEN IF Truthy(result.ret)
                      THEN Returns([result.ret EXCEPT !.cause = begin_cause \o @],
                                   result.similar)
                      ELSE Returns([cause |-> begin_cause], result.similar)
                 ELSE IF PyStr(str(key)) \in obj.keys
                 THEN Returns([cause |-> begin_cause \o
                                   Text("contains a string key identical to str(key)",
                                        <<name, str(key)>>),
                               suggest |-> Text("Did you forget to convert into a string?",
                                                <<str(key)>>)],
                              NotCalled)
                 ELSE Returns([cause |-> begin_cause], NotCalled)

-----------------------------------------------------------------------------
(* The five parsers registered for KeyError.  A line of source is modelled *)
(* by what the parsers ask of it: whether, stripped, it starts with        *)
(* "raise ", and which key texts occur in it.                              *)

ChainMapPrefix == "Key not found in the first mapping: "

\* `part in message`, for the messages and parts of this model.
Affixes == {"", "'", "\"", "'ab'\""}
Contains(text, part) == \E a \in Affixes, b \in Affixes : a \o part \o b = text

\* What may follow ChainMapPrefix in the key of a ChainMap KeyError.
Payloads == {"'ab'", "ab"}

StartsWithPrefix(k) == IsStr(k) /\ \E r \in Payloads : ChainMapPrefix \o r = k.v

\* key.replace(ChainMapPrefix, "", 1), for a key that starts with it.
RemovePrefix(k) == CHOOSE r \in Payloads : ChainMapPrefix \o r = k.v

\* ast.literal_eval(text), and the key kept when it raises.
Literals == {PyInt("1"), PyInt("2"), PyStr("1"), PyStr("a"), PyStr("ab")}
literal_eval_or_keep(text) ==
    IF \E k \in Literals : repr(k) = text
    THEN CHOOSE k \in Literals : repr(k) = text
    ELSE PyStr(text)

\* What a parser returns when it does not call analyze_missing_key.
NoKey == [t |-> "none", v |-> ""]
Plain(ret) == [ret |-> ret, similar |-> NotCalled, key |-> NoKey, found |-> NotFound]
NoResult == Plain(EmptyDict)

\* popitem_from_empty_dict that returns the hint without the cause.
popitem_from_empty_dict_hint_only(msg, tb) ==
    IF ~Contains(msg, "popitem(): dictionary is empty")
    THEN NoResult
    ELSE LET found == find_empty_dict_like_obj(tb.exception_frame, tb.bad_line)
         IN  IF found.name = "None"
             THEN Plain([cause |-> Text("empty dict I cannot identify", <<>>)
                                   \o please_report])
             ELSE Plain([suggest |-> Text("is an empty dict", <<found.name>>)])

popitem_from_empty_dict(msg, tb) ==
    IF ~Contains(msg, "popitem(): dictionary is empty")
    THEN NoResult
    ELSE LET found == find_empty_dict_like_obj(tb.exception_frame, tb.bad_line)
         IN  IF found.name = "None"
             THEN Plain([cause |-> Text("empty dict I cannot identify", <<>>)
                                   \o please_report])
             ELSE Plain([cause |-> Text("retrieve from empty dict", <<found.name>>),
                         suggest |-> Text("is an empty dict", <<found.name>>)])

popitem_from_empty_chain_map(msg, tb) ==
    IF ~Contains(msg, "No keys found in the first mapping.")
    THEN NoResult
    ELSE LET found == find_empty_dict_like_obj(tb.program_stopped_frame,
                                               tb.program_stopped_bad_line)
         IN  IF found.name = "None"
             THEN Plain([cause |-> Text("empty ChainMap I cannot identify", <<>>)
                                   \o please_report])
             ELSE Plain([cause |-> Text("retrieve from empty ChainMap", <<found.name>>),
                         suggest |-> Text("is an empty ChainMap", <<found.name>>)])

missing_key_in_chain_map(msg, tb, ranking) ==
    IF ~Contains(msg, ChainMapPrefix)
    THEN NoResult
    ELSE IF ~StartsWithPrefix(tb.value)
    THEN NoResult
    ELSE LET key == literal_eval_or_keep(RemovePrefix(tb.value))
             stopped == tb.bad_line.raise
             bad_line == IF stopped THEN tb.program_stopped_bad_line ELSE tb.bad_line
             frame == IF stopped THEN tb.program_stopped_frame ELSE tb.exception_frame
             cause == analyze_missing_key(key, frame, bad_line, ranking)
             fallback == [cause |-> Text("Missing key in a ChainMap", <<str(key)>>)]
         IN  IF str(key) \in bad_line.contains
             THEN IF Truthy(cause.ret) THEN cause ELSE [cause EXCEPT !.ret = fallback]
             ELSE Plain(fallback)

missing_key_in_dict(msg, tb, ranking) ==
    IF tb.bad_line.raise
    THEN NoResult
    ELSE IF str(tb.value) \notin tb.bad_line.contains
    THEN NoResult
    ELSE analyze_missing_key(tb.value, tb.exception_frame, tb.bad_line, ranking)

missing_key_in_dict_like(msg, tb, ranking) ==
    IF ~tb.bad_line.raise
    THEN NoResult
    ELSE IF str(tb.value) \notin tb.program_stopped_bad_line.contains
    THEN NoResult
    ELSE analyze_missing_key(tb.value, tb.program_stopped_frame,
                             tb.program_stopped_bad_line, ranking)

-----------------------------------------------------------------------------
(* The registry state as a record, and back. *)

Registry ==
    [heap |-> heap, WARNING_DATA_PARSERS |-> WARNING_DATA_PARSERS,
     sys_modules |-> sys_modules, import_calls |-> import_calls,
     returned |-> returned]

SetRegistry(R) ==
    /\ heap' = R.heap
    /\ WARNING_DATA_PARSERS' = R.WARNING_DATA_PARSERS
    /\ sys_modules' = R.sys_modules
    /\ import_calls' = R.import_calls
    /\ returned' = R.returned

NoCause == [type |-> "none", entry |-> WarningDataParser, invoked |-> <<>>,
            raised |-> FALSE, cause |-> EmptyDict, ret |-> EmptyDict, written |-> 0]

NoShow == [n |-> 0, outcome |-> "none", warning_type |-> "none", message |-> "",
           filename |-> "", lineno |-> 0]

NoParser == [parser |-> "none", ret |-> EmptyDict, similar |-> NotCalled,
             key |-> NoKey, found |-> NotFound]

\* The module state after import, no warning seen and no parser called yet.
InitRegistry ==
    /\ heap = <<>>
    /\ WARNING_DATA_PARSERS = EmptyDict
    /\ sys_modules = {}
    /\ import_calls = [t \in WarningTypes |-> 0]
    /\ returned = [t \in WarningTypes |-> {}]
    /\ session_err = <<>>
    /\ last_cause = NoCause
    /\ _warnings_seen = EmptyDict
    /\ recorded_tracebacks = <<>>
    /\ calls = {}
    /\ last_show = NoShow
    /\ _run_with_pytest = FALSE
    /\ tb_data = <<>>
    /\ message = ""
    /\ last_parser = NoParser

-----------------------------------------------------------------------------
(* Actions of the registry and the dispatch *)

\* Types the registry actions are called with.
RegistryTypes == {"SyntaxWarning", "UserWarning"}

GetWarningParser(warning_type) ==
    /\ SetRegistry(get_warning_parser(Registry, warning_type).R)
    /\ UNCHANGED <<session_err, last_cause, warnVars, keyVars>>

\* parser._add(func) on an object obtained from get_warning_parser.
CoreAdd(obj, func) ==
    /\ obj \in DOMAIN heap
    /\ Len(heap[obj].parsers) < MaxParsers
    /\ heap' = [heap EXCEPT ![obj] = _add(@, func)]
    /\ UNCHANGED <<WARNING_DATA_PARSERS, sys_modules, import_calls, returned,
                   session_err, last_cause, warnVars, keyVars>>

\* parser.add(func) on an object obtained from get_warning_parser.
CustomAdd(obj, func) ==
    /\ obj \in DOMAIN heap
    /\ Len(heap[obj].parsers) < MaxParsers
    /\ heap' = [heap EXCEPT ![obj] = add(@, func)]
    /\ UNCHANGED <<WARNING_DATA_PARSERS, sys_modules, import_calls, returned,
                   session_err, last_cause, warnVars, keyVars>>

GetWarningCause(warning_type) ==
    /\ Len(session_err) + Len(ErrorReport) <= MaxErr
    /\ LET store(c) ==
               /\ SetRegistry(c.R)
               /\ session_err' = c.err
               /\ last_cause' = [type |-> warning_type, entry |-> c.R.heap[c.inner.obj],
                                 invoked |-> c.inner.invoked, raised |-> c.inner.raised,
                                 cause |-> c.inner.cause, ret |-> c.ret,
                                 written |-> Len(c.err) - Len(session_err)]
       IN  store(get_warning_cause(Registry, session_err, warning_type))
    /\ UNCHANGED <<warnVars, keyVars>>

NextRegistry ==
    \/ \E t \in RegistryTypes : GetWarningParser(t)
    \/ \E obj \in DOMAIN heap, f \in Parsers : CoreAdd(obj, f)
    \/ \E obj \in DOMAIN heap, f \in Parsers : CustomAdd(obj, f)
    \/ \E t \in RegistryTypes : GetWarningCause(t)

SpecRegistry ==
    InitRegistry /\ [][NextRegistry]_vars

-----------------------------------------------------------------------------
(* The warning capture pipeline *)

Messages == {"PatchingFinder.find_spec() not found; falling back to find_module()",
             "division by zero"}
Filenames == {"<>", "prog.py"}
Linenos == {3, 4}

\* The registry when warnings start to arrive: nothing registered, or the
\* embedding program has added one custom parser for UserWarning with
\* get_warning_parser(UserWarning).add(p).
EmptyRegistry ==
    [heap |-> <<>>, WARNING_DATA_PARSERS |-> EmptyDict, sys_modules |-> {},
     import_calls |-> [t \in WarningTypes |-> 0],
     returned |-> [t \in WarningTypes |-> {}]]

WithCustomParser(p) ==
    LET register(g) == [g.R EXCEPT !.heap[g.ret] = add(@, p)]
    IN  register(get_warning_parser(EmptyRegistry, "UserWarning"))

InitPipeline ==
    /\ \E R \in {EmptyRegistry} \cup {WithCustomParser(p) : p \in Parsers} :
         /\ heap = R.heap
         /\ WARNING_DATA_PARSERS = R.WARNING_DATA_PARSERS
         /\ sys_modules = R.sys_modules
         /\ import_calls = R.import_calls
         /\ returned = R.returned
    /\ session_err = <<>>
    /\ last_cause = NoCause
    /\ _warnings_seen = EmptyDict
    /\ recorded_tracebacks = <<>>
    /\ calls = {}
    /\ last_show = NoShow
    /\ _run_with_pytest \in BOOLEAN
    /\ tb_data = <<>>
    /\ message = ""
    /\ last_parser = NoParser

\* The dedup tuple of a call.
DedupKey(warning_type, msg, filename, lineno) ==
    <<__name__(warning_type), msg, filename, lineno>>

ShowWarning(msg, warning_type, filename, lineno, walk, first, second) ==
    /\ last_show.n < MaxCalls
    /\ LET W == [R |-> Registry, err |-> session_err, seen |-> _warnings_seen,
                 recorded |-> recorded_tracebacks, outcome |-> "none"]
           store(W1) ==
               /\ SetRegistry(W1.R)
               /\ session_err' = W1.err
               /\ _warnings_seen' = W1.seen
               /\ recorded_tracebacks' = W1.recorded
               /\ last_show' = [n |-> last_show.n + 1, outcome |-> W1.outcome,
                                warning_type |-> warning_type, message |-> msg,
                                filename |-> filename, lineno |-> lineno]
       IN  store(show_warning(W, _run_with_pytest, msg, warning_type, filename,
                              lineno, walk, first, second))
    /\ calls' = calls \cup {DedupKey(warning_type, msg, filename, lineno)}
    /\ UNCHANGED <<last_cause, _run_with_pytest, keyVars>>

\* What can happen around one call: the walk, what goes wrong in the
\* construction tried first (nothing is constructed when the walk raises,
\* and there is no frame step without a frame), and what goes wrong in the
\* handler's construction (only run after a failure).
Scenarios ==
    {e \in [walk : Walks, first : Failures, second : Failures \ {"frame"}] :
        /\ e.walk = "raises" => e.first = "none"
        /\ e.walk = "nomatch" => e.first # "frame"
        /\ (e.walk # "raises" /\ e.first = "none") => e.second = "none"}

NextPipeline ==
    \E msg \in Messages, t \in WarningTypes, f \in Filenames, l \in Linenos,
       e \in Scenarios :
        ShowWarning(msg, t, f, l, e.walk, e.first, e.second)

SpecPipeline == InitPipeline /\ [][NextPipeline]_vars

-----------------------------------------------------------------------------
(* The KeyError parsers at work: a traceback is drawn, and a parser is     *)
(* applied to it.                                                          *)

\* The texts of keys that may occur in a line.
KeyTexts == {"1", "ab", "<K>"}

Lines == [raise : BOOLEAN, contains : {{}} \cup {{t} : t \in KeyTexts}]

\* The names of the objects of a frame, in the order of the scan.
Names == <<"d", "e">>

Frames ==
    {<<>>}
    \cup {<<[name |-> Names[1], obj |-> o]>> : o \in Objects}
    \cup {<<[name |-> Names[1], obj |-> o1], [name |-> Names[2], obj |-> o2]>> :
             o1 \in Objects, o2 \in Objects}

\* value.args[0]: the key that was looked up, or for a ChainMap the message
\* that wraps it.
Values ==
    {PyInt("1"), PyStr("1"), PyStr("ab"), Opaque}
    \cup {PyStr(ChainMapPrefix \o r) : r \in Payloads}

KeyErrorMessages ==
    {"'popitem(): dictionary is empty'",
     "'No keys found in the first mapping.'",
     "\"Key not found in the first mapping: 'ab'\"",
     "'ab'"}

\* The frame that is not the one under study holds one empty dict, on a
\* line that names no key.
OtherFrame == Append(<<>>, [name |-> "other", obj |-> [class |-> "dict", keys |-> {}]])

\* Tracebacks: the line and frame where the exception was raised and the
\* line and frame where the program stopped; one of the two pairs ranges
\* over all lines and frames.
TracebackDatas ==
    {[value |-> v, bad_line |-> l, exception_frame |-> f,
      program_stopped_bad_line |-> [raise |-> FALSE, contains |-> {}],
      program_stopped_frame |-> OtherFrame] :
        v \in Values, l \in Lines, f \in Frames}
    \cup
    {[value |-> v, bad_line |-> [raise |-> r, contains |-> {}],
      exception_frame |-> OtherFrame,
      program_stopped_bad_line |-> l, program_stopped_frame |-> f] :
        v \in Values, r \in BOOLEAN, l \in {x \in Lines : ~x.raise}, f \in Frames}

\* The verdicts of the similarity matcher: the close words, closest first.
Rankings ==
    {<<>>} \cup {<<k>> : k \in DictKeys} \cup
    {r \in {<<k1, k2>> : k1 \in DictKeys, k2 \in DictKeys} : r[1] # r[2]}

InitKeyErrorParsers ==
    /\ heap = <<>>
    /\ WARNING_DATA_PARSERS = EmptyDict
    /\ sys_modules = {}
    /\ import_calls = [t \in WarningTypes |-> 0]
    /\ returned = [t \in WarningTypes |-> {}]
    /\ session_err = <<>>
    /\ last_cause = NoCause
    /\ _warnings_seen = EmptyDict
    /\ recorded_tracebacks = <<>>
    /\ calls = {}
    /\ last_show = NoShow
    /\ _run_with_pytest = FALSE
    /\ tb_data \in TracebackDatas
    /\ message \in KeyErrorMessages
    /\ last_parser = NoParser

Apply(parser, r) ==
    /\ last_parser.parser = "none"
    /\ last_parser' = [parser |-> parser, ret |-> r.ret, similar |-> r.similar,
                       key |-> r.key, found |-> r.found]
    /\ UNCHANGED <<regVars, session_err, last_cause, warnVars, tb_data, message>>

PopitemFromEmptyDict ==
    Apply("popitem_from_empty_dict", popitem_from_empty_dict(message, tb_data))

PopitemFromEmptyChainMap ==
    Apply("popitem_from_empty_chain_map", popitem_from_empty_chain_map(message, tb_data))

MissingKeyInChainMap ==
    \E ranking \in Rankings :
        Apply("missing_key_in_chain_map", missing_key_in_chain_map(message, tb_data, ranking))

MissingKeyInDict ==
    \E ranking \in Rankings :
        Apply("missing_key_in_dict", missing_key_in_dict(message, tb_data, ranking))

MissingKeyInDictLike ==
    \E ranking \in Rankings :
        Apply("missing_key_in_dict_like", missing_key_in_dict_like(message, tb_data, ranking))

NextKeyError ==
    \/ PopitemFromEmptyDict
    \/ PopitemFromEmptyChainMap
    \/ MissingKeyInChainMap
    \/ MissingKeyInDict
    \/ MissingKeyInDictLike

SpecKeyError == InitKeyErrorParsers /\ [][NextKeyError]_vars

-----------------------------------------------------------------------------
(* Claims about the registry and the dispatch, checked under SpecRegistry *)

IsPrefix(s, t) == Len(s) <= Len(t) /\ s = SubSeq(t, 1, Len(s))

\* C2: after any interleaving of _add and add on a WarningDataParser, its
\* effective list `parsers` is custom_parsers followed by core_parsers, and
\* get_cause calls the parsers in that order, so that a core parser is
\* called only after every custom parser has been.
C2_CustomBeforeCore ==
    /\ \A obj \in DOMAIN heap :
         heap[obj].parsers = heap[obj].custom_parsers \o heap[obj].core_parsers
    /\ last_cause.type # "none" =>
         /\ IsPrefix(last_cause.invoked,
                     last_cause.entry.custom_parsers \o last_cause.entry.core_parsers)
         /\ Len(last_cause.invoked) > Len(last_cause.entry.custom_parsers) =>
              IsPrefix(last_cause.entry.custom_parsers, last_cause.invoked)

\* A core parser was registered before a custom one, and a dispatch went
\* through the custom parsers into the core ones.
C2_Witness ==
    /\ last_cause.type = "UserWarning"
    /\ Len(last_cause.entry.custom_parsers) >= 1
    /\ Len(last_cause.entry.core_parsers) >= 1
    /\ Len(last_cause.invoked) > Len(last_cause.entry.custom_parsers)
    /\ last_cause.entry.custom_parsers[1] # last_cause.entry.core_parsers[1]

\* The first parser of a list that returns a non-empty cause (0: none does).
FirstCause(parsers) ==
    IF \E i \in DOMAIN parsers : Truthy(ParserResult(parsers[i])) /\ ~Raises(parsers[i])
    THEN CHOOSE i \in DOMAIN parsers :
           /\ Truthy(ParserResult(parsers[i])) /\ ~Raises(parsers[i])
           /\ \A j \in 1..(i - 1) : ~Truthy(ParserResult(parsers[j])) \/ Raises(parsers[j])
    ELSE 0

\* The first parser of a list that raises (0: none does).
FirstRaise(parsers) ==
    IF \E i \in DOMAIN parsers : Raises(parsers[i])
    THEN CHOOSE i \in DOMAIN parsers :
           Raises(parsers[i]) /\ \A j \in 1..(i - 1) : ~Raises(parsers[j])
    ELSE 0

\* C3: get_cause calls the parsers in list order and returns the result of
\* the first one that returns a non-empty cause, calling none after it; when
\* every parser returns empty, or the list is empty, it returns {} and does
\* not raise.  (No parser before the deciding one raises.)
C3_FirstCauseWins ==
    last_cause.type # "none" =>
        LET ps == last_cause.entry.parsers
            i == FirstCause(ps)
            r == FirstRaise(ps)
        IN  /\ (i > 0 /\ (r = 0 \/ i < r)) =>
                  /\ ~last_cause.raised
                  /\ last_cause.cause = ParserResult(ps[i])
                  /\ last_cause.invoked = SubSeq(ps, 1, i)
            /\ (i = 0 /\ r = 0) =>
                  /\ ~last_cause.raised
                  /\ last_cause.cause = EmptyDict
                  /\ last_cause.invoked = ps

\* A dispatch went past an empty-handed parser, stopped at a cause and left
\* a parser with another cause uncalled.
C3_Witness ==
    /\ last_cause.type # "none"
    /\ Len(last_cause.invoked) = 2
    /\ Len(last_cause.entry.parsers) = 3
    /\ last_cause.cause = [cause |-> "a"]
    /\ Truthy(ParserResult(last_cause.entry.parsers[3]))

\* C4, as claimed: when a parser raises during dispatch the failure is
\* written to the error channel, the parser counts as having returned {},
\* the parsers after it are still called, and a later parser with a
\* non-empty cause decides what get_warning_cause returns.
C4_AsClaimed ==
    (last_cause.type # "none" /\ last_cause.raised) =>
        LET ps == last_cause.entry.parsers
            i == FirstCause(ps)
        IN  /\ last_cause.written = Len(ErrorReport)
            /\ last_cause.invoked = (IF i > 0 THEN SubSeq(ps, 1, i) ELSE ps)
            /\ last_cause.ret = (IF i > 0 THEN ParserResult(ps[i]) ELSE EmptyDict)

\* C4, amended: when a parser raises during dispatch the failure is written
\* to the error channel and get_warning_cause returns {}; the parsers after
\* the one that raised are not called, whatever they would have returned.
C4_RaiseEndsDispatch ==
    last_cause.type # "none" =>
        LET ps == last_cause.entry.parsers
            i == FirstCause(ps)
            r == FirstRaise(ps)
        IN  /\ last_cause.raised <=> (r > 0 /\ (i = 0 \/ r < i))
            /\ last_cause.raised =>
                  /\ last_cause.written = Len(ErrorReport)
                  /\ Len(session_err) >= Len(ErrorReport)
                  /\ SubSeq(session_err, Len(session_err) - Len(ErrorReport) + 1,
                            Len(session_err)) = ErrorReport
                  /\ last_cause.ret = EmptyDict
                  /\ last_cause.invoked = SubSeq(ps, 1, r)
            /\ ~last_cause.raised => last_cause.written = 0

\* A parser raised while a parser after it would have returned a cause.
C4_Witness ==
    /\ last_cause.type # "none"
    /\ last_cause.raised
    /\ LET ps == last_cause.entry.parsers
       IN  \E j \in DOMAIN ps : j > FirstRaise(ps) /\ Truthy(ParserResult(ps[j]))

\* C6: the built-in module of a known type is imported at most once, by the
\* call that creates the registry entry; every get_warning_parser call for a
\* type, the one the module makes while it is loaded included, returns the
\* one object the registry holds for the type, which carries the built-in
\* parsers as its first core parsers.
C6_LoadOnceSameEntry ==
    \A t \in WarningTypes :
        /\ import_calls[t] <= 1
        /\ import_calls[t] = 1 <=>
             (t \in DOMAIN INCLUDED_PARSERS /\ t \in DOMAIN WARNING_DATA_PARSERS)
        /\ t \notin DOMAIN WARNING_DATA_PARSERS => returned[t] = {}
        /\ t \in DOMAIN WARNING_DATA_PARSERS =>
             /\ returned[t] = {WARNING_DATA_PARSERS[t]}
             /\ t \in DOMAIN INCLUDED_PARSERS =>
                  IsPrefix(SyntaxWarningParsers,
                           heap[WARNING_DATA_PARSERS[t]].core_parsers)
        /\ \A u \in DOMAIN WARNING_DATA_PARSERS :
             (t \in DOMAIN WARNING_DATA_PARSERS /\ u # t) =>
                 WARNING_DATA_PARSERS[u] # WARNING_DATA_PARSERS[t]
    /\ Len(heap) = Cardinality(DOMAIN WARNING_DATA_PARSERS)

\* The entry of the known type was fetched, a custom parser was added to
\* it, and a dispatch fetched it again.
C6_Witness ==
    /\ last_cause.type = "SyntaxWarning"
    /\ Len(last_cause.entry.custom_parsers) >= 1
    /\ import_calls["SyntaxWarning"] = 1
    /\ "UserWarning" \in DOMAIN WARNING_DATA_PARSERS

\* C7, as claimed: add puts the new parser in front of the custom parsers
\* registered before it.
C7_AsClaimed ==
    [][\A obj \in DOMAIN heap :
         heap'[obj].custom_parsers # heap[obj].custom_parsers =>
             Tail(heap'[obj].custom_parsers) = heap[obj].custom_parsers]_vars

\* C7, amended: add puts the new parser behind the custom parsers
\* registered before it (the custom parser registered first runs first),
\* and the effective list is custom ++ core.
C7_AddAppends ==
    [][\A obj \in DOMAIN heap :
         heap'[obj].custom_parsers # heap[obj].custom_parsers =>
             /\ Len(heap'[obj].custom_parsers) = Len(heap[obj].custom_parsers) + 1
             /\ IsPrefix(heap[obj].custom_parsers, heap'[obj].custom_parsers)
             /\ heap'[obj].core_parsers = heap[obj].core_parsers
             /\ heap'[obj].parsers =
                    heap'[obj].custom_parsers \o heap[obj].core_parsers]_vars

\* Two different custom parsers were added to an entry that has core
\* parsers; a dispatch called the first-registered one first.
C7_Witness ==
    /\ last_cause.type # "none"
    /\ last_cause.entry.custom_parsers = <<"p_empty", "p_cause_a">>
    /\ Len(last_cause.entry.core_parsers) >= 1
    /\ last_cause.invoked = <<"p_empty", "p_cause_a">>

-----------------------------------------------------------------------------
(* Claims about the warning capture pipeline, checked under SpecPipeline *)

\* A call the filename/denylist filter of show_warning drops.
Filtered(call) ==
    \/ call.filename = "<>"
    \/ call.warning_type = "ImportWarning" /\ call.message \in IdleMessages

\* The WarningInfo at the end of a list is the one of `call`.
LastIsFor(recorded, call) ==
    /\ recorded # <<>>
    /\ LET w == recorded[Len(recorded)]
       IN  /\ w.warning_type = call.warning_type
           /\ w.message = call.message
           /\ w.filename = call.filename
           /\ w.lineno = call.lineno

\* C1: when not run under pytest, a show_warning call appends a
\* WarningInfo to session.recorded_tracebacks if and only if the filter does
\* not drop it and no earlier call had the same (category name, message,
\* filename, line number); every other call leaves the list as it is.
C1_AsClaimed ==
    [][(last_show'.n = last_show.n + 1 /\ ~_run_with_pytest) =>
          IF ~Filtered(last_show') /\
             DedupKey(last_show'.warning_type, last_show'.message,
                      last_show'.filename, last_show'.lineno) \notin calls
          THEN /\ Len(recorded_tracebacks') = Len(recorded_tracebacks) + 1
               /\ SubSeq(recorded_tracebacks', 1, Len(recorded_tracebacks))
                    = recorded_tracebacks
               /\ LastIsFor(recorded_tracebacks', last_show')
          ELSE recorded_tracebacks' = recorded_tracebacks]_vars

\* The dedup index at work on the calls that end normally: such a call
\* appends its WarningInfo exactly when the filter lets it through and
\* saw_warning_before has no record of its tuple.
DedupWhenConstructionSucceeds ==
    [][(last_show'.n = last_show.n + 1 /\ ~_run_with_pytest
            /\ last_show'.outcome # "raised") =>
          IF ~Filtered(last_show') /\
             DedupKey(last_show'.warning_type, last_show'.message,
                      last_show'.filename, last_show'.lineno) \notin calls
          THEN /\ Len(recorded_tracebacks') = Len(recorded_tracebacks) + 1
               /\ LastIsFor(recorded_tracebacks', last_show')
          ELSE recorded_tracebacks' = recorded_tracebacks]_vars

\* C5: no exception leaves show_warning, whichever step fails.
C5_AsClaimed == last_show.outcome # "raised"

-----------------------------------------------------------------------------
(* Claims about the KeyError parsers, checked under SpecKeyError *)

\* A parser called analyze_missing_key, which identified a container.
Analyzed == last_parser.key.t # "none" /\ last_parser.found.name # "None"

\* The base explanation: it names the container, and its class unless it
\* is a dict.
BaseExplanation ==
    IF last_parser.found.obj.class = "dict"
    THEN Text("cannot be found in the dict",
              <<repr(last_parser.key), last_parser.found.name>>)
    ELSE Text("cannot be found in object of type",
              <<repr(last_parser.key), last_parser.found.name,
                last_parser.found.obj.class>>)

\* The key is a str and equals str(k) for a key k of the container.
MatchesStringified ==
    /\ Analyzed
    /\ IsStr(last_parser.key)
    /\ \E k \in last_parser.found.obj.keys : str(k) = last_parser.key.v

\* C8, as claimed: when the missing key is a str equal to the stringified
\* form of an existing key of the identified container, the result appends
\* the "did you forget to convert the key into a string?" hint to the base
\* explanation, and similarity matching is not run.
C8_AsClaimed ==
    MatchesStringified =>
        /\ IsPrefix(BaseExplanation, last_parser.ret.cause)
        /\ Len(last_parser.ret.cause) > Len(BaseExplanation)
        /\ last_parser.ret.suggest =
               Text("Did you forget to convert into a string?", <<last_parser.key.v>>)
        /\ last_parser.similar = NotCalled

\* C8, amended: in that case the result appends to the base explanation
\* that a key of the container has a string representation identical to
\* the key, with the hint "Did you convert `key` into a string by
\* mistake?", and similarity matching is not run.
C8_ConvertedByMistake ==
    MatchesStringified =>
        /\ last_parser.ret.cause =
               BaseExplanation \o Text("string identical to key",
                                       <<repr(last_parser.key), last_parser.found.name>>)
        /\ last_parser.ret.suggest =
               Text("Did you convert into a string by mistake?", <<last_parser.key.v>>)
        /\ last_parser.similar = NotCalled

\* The key "1" was looked up in a dict whose only key is 1.
C8_Witness ==
    /\ last_parser.parser = "missing_key_in_dict"
    /\ last_parser.key = PyStr("1")
    /\ last_parser.found.obj = [class |-> "dict", keys |-> {PyInt("1")}]
    /\ "suggest" \in DOMAIN last_parser.ret

\* C9: with a str key that matches no stringified key of the identified
\* container, the number of similar keys the matcher returns decides: none,
\* the base explanation alone and no suggestion; one, a "Did you mean X?"
\* suggestion naming it; several, a cause listing all of them in the
\* matcher's order and a suggestion naming the first.  The cause always
\* starts with the base explanation.
C9_SimilarKeysDecide ==
    (Analyzed /\ IsStr(last_parser.key) /\ ~MatchesStringified) =>
        LET similar == last_parser.similar
            ret == last_parser.ret
            args == <<repr(last_parser.key), last_parser.found.name>>
        IN  /\ similar # NotCalled
            /\ IsPrefix(BaseExplanation, ret.cause)
            /\ Len(similar) = 0 => ret = [cause |-> BaseExplanation]
            /\ Len(similar) = 1 =>
                 /\ ret.suggest = Text("Did you mean?", <<similar[1]>>)
                 /\ ret.cause = BaseExplanation \o
                        Text("is a key similar to", <<similar[1], args[2], args[1]>>)
            /\ Len(similar) > 1 =>
                 /\ ret.suggest = Text("Did you mean?", <<similar[1]>>)
                 /\ ret.cause = BaseExplanation \o
                        Text("has some keys similar to", <<args[2], args[1], similar>>)

\* The key 'ab' was looked up where the program stopped, in an object with
\* the keys '1' and 'a', and the matcher found both similar, 'a' closest.
C9_Witness ==
    /\ last_parser.parser = "missing_key_in_dict_like"
    /\ last_parser.key = PyStr("ab")
    /\ last_parser.similar = <<"'a'", "'1'">>
    /\ last_parser.found.obj.class = "ChainMap"
    /\ last_parser.ret.suggest = Text("Did you mean?", <<"'a'">>)

\* C10: what a KeyError parser returns is {} or has a cause; none returns a
\* suggestion without a cause.
C10_CauseWheneverNonEmpty ==
    last_parser.parser # "none" =>
        \/ last_parser.ret = EmptyDict
        \/ "cause" \in DOMAIN last_parser.ret

\* popitem() on an empty dict that was identified: cause and suggestion.
C10_Witness ==
    /\ last_parser.parser = "popitem_from_empty_dict"
    /\ DOMAIN last_parser.ret = {"cause", "suggest"}

====
